---- MODULE Spec2Model ----
(***************************************************************************)
(* Device reachability detection of the netcafe_automation integration:    *)
(* scanner selection (scanner.py async_get_scanner), the periodic poll     *)
(* (__init__.py async_setup._update_devices), one detection cycle          *)
(* (scanner.py async_update_devices), config-entry setup (__init__.py      *)
(* async_setup_entry) and the derived online value (coordinator.py         *)
(* is_reachable, device_tracker.py is_connected).                          *)
(*                                                                         *)
(* Time is counted in seconds.  The clock is observed at the instants at   *)
(* which the interval listener is due; every await of the code is a        *)
(* suspension point, so a cycle may complete at the instant it started or  *)
(* at any later instant, in any interleaving with the other tasks.         *)
(***************************************************************************)
EXTENDS Integers, Sequences, FiniteSets, TLC

\* ------------------------------------------------------------------ bounds
MaxTime == 15
LongTime == 50
MaxInFlight == 2

\* --------------------------------------------------------------- constants
DEFAULT_CONSIDER_HOME == 45
PROBE_INTERVAL == 5
TRACKER_INTERVAL == PROBE_INTERVAL

None == -1

\* entity ids of the computers a configuration can name, and their addresses
Ids == {"pc1", "pc2"}
IpOf(id) == IF id = "pc1" THEN "10.0.0.1" ELSE "10.0.0.2"
StrayIp == "10.0.0.9"
AllIps == {IpOf(id) : id \in Ids} \cup {StrayIp}

\* outcome of the mechanism behind one neighbour-table read
Mechanism == {"rows", "norows", "error"}

\* what the ping process of one address does: it exits with status 0 or with
\* another status within the wait, it is still running when the wait of 1.5 s
\* ends, or it could not be started
ProbeResult == {"exit0", "exit1", "timeout", "error"}

\* the computers named by the CSV of the config entry, in file order
Configs == {<<"pc1">>, <<"pc2">>, <<"pc1", "pc2">>}
SoloConfigs == {<<"pc1">>}

\* the addresses a neighbour table can hold next to that of the one computer
SoloIps == {IpOf("pc1"), StrayIp}

VARIABLES
    now,          \* dt_util.utcnow(), seconds
    nextTick,     \* instant at which the interval listener is due, None before async_setup
    scanner,      \* hass.data[DOMAIN]["scanner"], "None" when the key is absent
    devices,      \* hass.data[DOMAIN][CONF_DEVICES]: entity id -> DeviceData
    coordinators, \* hass.data[DOMAIN]["coordinators"]: entity id -> coordinator.data
    cycles,       \* executions of _update_devices suspended at an await, oldest first
    entryPc,      \* position of async_setup_entry
    pending,      \* computers of the parsed CSV still to be looked at by async_setup_entry
    creating,     \* entity id whose coordinator is awaiting its first refresh, "None" otherwise
    probes,       \* per variant: how its probe in the latest async_get_scanner call ended
    log,          \* per device: the transition logged by the most recent completed cycle
    src,          \* per device: results of the most recent completed cycle that hold its address
    polled,       \* devices whose address the most recent completed cycle had taken to probe
    wasOnline,    \* per device: is_reachable just before the most recent update
    isOnlineNow,  \* per device: is_reachable just after the most recent update
    seenAt,       \* per device: instant of the most recent cycle that set _last_seen
    lastTick,     \* what the most recent firing of the listener did
    lastCycle,    \* how the most recent finished cycle ended
    lastArp,      \* what the neighbour-table read of the cycle completed last gave
                  \* ("none" once the clock has moved on)
    pingIn,       \* one pinger call followed probe by probe: its ip_addresses
    pingRes,      \* what the ping process of each address does
    pingPc,       \* where the ping_one of each position of pingIn stands
    pingCall,     \* "idle", "running" or "returned"
    pingOut,      \* the list the call returned
    arpCall       \* one neighbour-table read by an external command, followed

vars == <<now, nextTick, scanner, devices, coordinators, cycles, entryPc, pending,
          creating, probes, log, src, polled, wasOnline, isOnlineNow, seenAt, lastTick, lastCycle,
          lastArp, pingIn, pingRes, pingPc, pingCall, pingOut, arpCall>>

\* the part of the state one followed pinger call works on, and the rest
prober == <<pingIn, pingRes, pingPc, pingCall, pingOut>>
core == <<now, nextTick, scanner, devices, coordinators, cycles, entryPc, pending,
          creating, probes, log, src, polled, wasOnline, isOnlineNow, seenAt, lastTick, lastCycle,
          lastArp>>

\* ------------------------------------------------------------- DeviceData
\* a device record that counts as reachable until a cycle says otherwise
DeviceData_optimistic(ip) ==
    [ip_address |-> ip, consider_home |-> DEFAULT_CONSIDER_HOME,
     reachable |-> TRUE, last_seen |-> None]

\* scanner.py DeviceData: a new device is not reachable and was never seen
DeviceData(ip) ==
    [ip_address |-> ip, consider_home |-> DEFAULT_CONSIDER_HOME,
     reachable |-> FALSE, last_seen |-> None]

\* coordinator.py is_reachable, for the device d read at instant t
is_reachable(d, t) ==
    IF d.reachable THEN TRUE
    ELSE IF d.last_seen # None THEN t - d.last_seen < d.consider_home
    ELSE FALSE

\* a tracker that reports the value its coordinator was last given
is_connected_cached(id) == coordinators[id]

\* device_tracker.py is_connected: the coordinator's property, read on its device
is_connected(id) == is_reachable(devices[id], now)

\* --------------------------------------------------------- scanner choice
\* a test that takes any returned list, empty or not, as a working mechanism
probe_not_none(m) == TRUE

\* ScannerIPRoute/ScannerIPNeigh/ScannerArp.get_arp_records as a capability
\* probe: an exception or timeout of the mechanism is caught and gives [],
\* so the probe's value is truthy exactly when rows were returned
probe_truthy(m) == m = "rows"

Variants == <<"ScannerIPRoute", "ScannerIPNeigh", "ScannerArp">>

\* the list one get_arp_records call of a probe returned: rows, or the empty
\* list of a mechanism that has no rows or that failed
probe_of(m) == IF m = "rows" THEN "records" ELSE "empty"

NoProbes == [v \in {Variants[k] : k \in 1..3} |-> "not_invoked"]

\* a selection that tries the legacy arp command before `ip neigh`
async_get_scanner_reordered(ma, mb, mc) ==
    IF probe_truthy(ma)
    THEN [scanner |-> "ScannerIPRoute",
          probes |-> [NoProbes EXCEPT !["ScannerIPRoute"] = probe_of(ma)]]
    ELSE IF probe_truthy(mc)
    THEN [scanner |-> "ScannerArp",
          probes |-> [NoProbes EXCEPT !["ScannerIPRoute"] = probe_of(ma),
                                      !["ScannerArp"] = probe_of(mc)]]
    ELSE IF probe_truthy(mb)
    THEN [scanner |-> "ScannerIPNeigh",
          probes |-> [NoProbes EXCEPT !["ScannerIPRoute"] = probe_of(ma),
                                      !["ScannerArp"] = probe_of(mc),
                                      !["ScannerIPNeigh"] = probe_of(mb)]]
    ELSE [scanner |-> "None",
          probes |-> [NoProbes EXCEPT !["ScannerIPRoute"] = probe_of(ma),
                                      !["ScannerIPNeigh"] = probe_of(mb),
                                      !["ScannerArp"] = probe_of(mc)]]

\* scanner.py async_get_scanner: ma, mb, mc are what the three mechanisms do
\* if they are invoked; the result names the scanner ("None": ScannerException
\* was raised) and how the probe of each variant ended
async_get_scanner(ma, mb, mc) ==
    IF probe_truthy(ma)
    THEN [scanner |-> "ScannerIPRoute",
          probes |-> [NoProbes EXCEPT !["ScannerIPRoute"] = probe_of(ma)]]
    ELSE IF probe_truthy(mb)
    THEN [scanner |-> "ScannerIPNeigh",
          probes |-> [NoProbes EXCEPT !["ScannerIPRoute"] = probe_of(ma),
                                      !["ScannerIPNeigh"] = probe_of(mb)]]
    ELSE IF probe_truthy(mc)
    THEN [scanner |-> "ScannerArp",
          probes |-> [NoProbes EXCEPT !["ScannerIPRoute"] = probe_of(ma),
                                      !["ScannerIPNeigh"] = probe_of(mb),
                                      !["ScannerArp"] = probe_of(mc)]]
    ELSE [scanner |-> "None",
          probes |-> [NoProbes EXCEPT !["ScannerIPRoute"] = probe_of(ma),
                                      !["ScannerIPNeigh"] = probe_of(mb),
                                      !["ScannerArp"] = probe_of(mc)]]

\* ------------------------------------------------------------ one cycle
\* a fusion in which the neighbour table has to agree with the ping
reachable_ip_veto(ips, ping_reachable, arp_records) ==
    ping_reachable \cap (ips \cap arp_records)

\* a fusion that takes an empty neighbour table as "nothing is reachable"
reachable_ip_empty_clears(ips, ping_reachable, arp_records) ==
    IF arp_records = {} THEN {} ELSE ping_reachable \cup (ips \cap arp_records)

\* a merge that takes every address of the neighbour table
reachable_ip_unfiltered(ips, ping_reachable, arp_records) ==
    ping_reachable \cup arp_records

\* scanner.py async_update_devices, lines 174-185: the merged reachable set
reachable_ip(ips, ping_reachable, arp_records) ==
    ping_reachable \cup (ips \cap arp_records)

\* an update that never takes the raw flag back
update_device_sticky(d, reach, t) ==
    IF d.ip_address \in reach
    THEN [d EXCEPT !.reachable = TRUE, !.last_seen = t]
    ELSE d

\* an update that sets the flag of a found device and not its timestamp
update_device_unstamped(d, reach, t) ==
    IF d.ip_address \in reach
    THEN [d EXCEPT !.reachable = TRUE]
    ELSE [d EXCEPT !.reachable = FALSE]

\* an update that stamps every device it looks at, found or not
update_device_touch(d, reach, t) ==
    IF d.ip_address \in reach
    THEN [d EXCEPT !.reachable = TRUE, !.last_seen = t]
    ELSE [d EXCEPT !.reachable = FALSE, !.last_seen = t]

\* an update that forgets when a device was seen once it is not found
update_device_forget(d, reach, t) ==
    IF d.ip_address \in reach
    THEN [d EXCEPT !.reachable = TRUE, !.last_seen = t]
    ELSE [d EXCEPT !.reachable = FALSE, !.last_seen = None]

\* scanner.py async_update_devices, lines 194-199: the new DeviceData
update_device(d, reach, t) ==
    IF d.ip_address \in reach
    THEN [d EXCEPT !.reachable = TRUE, !.last_seen = t]
    ELSE [d EXCEPT !.reachable = FALSE]

\* scanner.py async_update_devices, lines 200-206: the transition that is logged
\* for a device that was d before the update and is found in reach or not
logged(d, reach, t) ==
    IF d.ip_address \in reach
    THEN IF ~d.reachable THEN [kind |-> "online", ago |-> 0]
         ELSE [kind |-> "none", ago |-> 0]
    ELSE IF d.reachable
         THEN [kind |-> "offline",
               ago |-> IF d.last_seen # None THEN t - d.last_seen ELSE 0]
         ELSE [kind |-> "none", ago |-> 0]

\* which of the two results of a cycle hold the address ip
source_of(ip, ping_reachable, arp_records) ==
    IF ip \in ping_reachable
    THEN IF ip \in arp_records THEN "both" ELSE "ping"
    ELSE IF ip \in arp_records THEN "arp" ELSE "none"

\* scanner.py ping_one, lines 45-72: True when the process exited with status
\* 0 within the wait; a timeout of the wait and any exception give False
ping_one(r) == r = "exit0"

RECURSIVE collect_until_failure(_, _)
\* a result loop that stops at the first address whose probe failed
collect_until_failure(ip_addresses, results) ==
    IF ip_addresses = << >> \/ ~Head(results) THEN << >>
    ELSE <<Head(ip_addresses)>> \o collect_until_failure(Tail(ip_addresses), Tail(results))

RECURSIVE collect(_, _)
\* scanner.py pinger, lines 75-79: the results of gather are walked in the
\* order of ip_addresses and the addresses whose result is True are appended
collect(ip_addresses, results) ==
    IF ip_addresses = << >> THEN << >>
    ELSE (IF Head(results) THEN <<Head(ip_addresses)>> ELSE << >>)
             \o collect(Tail(ip_addresses), Tail(results))

\* scanner.py pinger as a whole: res gives what the ping process of each
\* address does; the result lists, in input order, the addresses whose
\* process exited with status 0
pinger(ip_addresses, res) ==
    collect(ip_addresses,
            [k \in 1..Len(ip_addresses) |-> ping_one(res[ip_addresses[k]])])

RECURSIVE ListOf(_)
\* scanner.py line 168: the addresses of the registry as a list
ListOf(S) ==
    IF S = {} THEN << >>
    ELSE LET x == CHOOSE y \in S : TRUE IN <<x>> \o ListOf(S \ {x})

\* scanner.py line 185: set(ping_reachable)
ToSet(list) == {list[k] : k \in 1..Len(list)}

\* a cycle that catches the exception of the pinger and goes on with no ping result
after_pinger_swallow(c, raised, ping_reachable) ==
    [c EXCEPT !.pc = "arp", !.ping = IF raised THEN {} ELSE ping_reachable]

\* scanner.py line 171, what the awaited pinger call leaves of the cycle c: an
\* exception is caught neither by async_update_devices nor by _update_devices,
\* so the task ends there; otherwise the cycle goes on to the neighbour-table read
after_pinger(c, raised, ping_reachable) ==
    IF raised THEN [c EXCEPT !.pc = "raised"]
    ELSE [c EXCEPT !.pc = "arp", !.ping = ping_reachable]

\* scanner.py lines 174-182: the records the cycle uses; an exception of the
\* read is caught and leaves arp_reachable empty
arp_records_of(raised, records) == IF raised THEN {} ELSE records

\* scanner.py lines 175-182, how the neighbour-table read of a cycle ended: it
\* raised, it returned an empty list, or it returned records
arp_outcome(raised, records) ==
    IF raised THEN "raised" ELSE IF records = {} THEN "empty" ELSE "records"

\* a listener that pushes data only to the coordinators whose device changed
to_notify_changed(coordinator_ids, before, after, t) ==
    {id \in coordinator_ids \cap DOMAIN after :
        is_reachable(before[id], t) # is_reachable(after[id], t)}

\* __init__.py _update_devices, lines 87-95: after the update every entity id
\* with a coordinator and a device has async_set_updated_data called
to_notify(coordinator_ids, before, after, t) ==
    {id \in coordinator_ids : id \in DOMAIN after}

NoLog == [kind |-> "none", ago |-> 0]

RemoveAt(s, i) == [j \in 1..(Len(s) - 1) |-> IF j < i THEN s[j] ELSE s[j + 1]]

\* ------------------------------------------------------------------ Init
InitCore ==
    /\ now = 0
    /\ nextTick = None
    /\ scanner = "None"
    /\ devices = << >>
    /\ coordinators = << >>
    /\ cycles = << >>
    /\ entryPc = "idle"
    /\ pending = << >>
    /\ creating = "None"
    /\ probes = NoProbes
    /\ log = [id \in Ids |-> NoLog]
    /\ src = [id \in Ids |-> "none"]
    /\ polled = {}
    /\ wasOnline = [id \in Ids |-> FALSE]
    /\ isOnlineNow = [id \in Ids |-> FALSE]
    /\ seenAt = [id \in Ids |-> None]
    /\ lastTick = "none"
    /\ lastCycle = "none"
    /\ lastArp = "none"

\* no neighbour-table command is being followed
NoCall == [cmd |-> "none", ends |-> "exit0", stdout |-> {}, pc |-> "idle", response |-> {}]

\* the state after construction, no pinger call being followed
Init ==
    /\ InitCore
    /\ pingIn = << >>
    /\ pingRes = [ip \in AllIps |-> "exit1"]
    /\ pingPc = << >>
    /\ pingCall = "idle"
    /\ pingOut = << >>
    /\ arpCall = NoCall

hist == <<log, src, polled, wasOnline, isOnlineNow, seenAt, lastTick, lastArp>>

\* __init__.py async_setup: empty registry, scanner choice (a ScannerException
\* is logged and setup goes on), interval listener registered
async_setup(ma, mb, mc) ==
    /\ nextTick = None
    /\ LET r == async_get_scanner(ma, mb, mc) IN
        /\ scanner' = r.scanner
        /\ probes' = r.probes
    /\ nextTick' = now + TRACKER_INTERVAL
    /\ UNCHANGED <<now, devices, coordinators, cycles, entryPc, pending, creating,
                   hist, lastCycle,
                   prober, arpCall>>

\* the clock reaches the instant at which the listener is due
AdvanceTime(horizon) ==
    /\ nextTick # None
    /\ now < nextTick
    /\ nextTick <= horizon
    /\ now' = nextTick
    /\ lastArp' = "none"
    /\ UNCHANGED <<nextTick, scanner, devices, coordinators, cycles, entryPc, pending,
                   creating, probes, log, src, polled, wasOnline, isOnlineNow, seenAt,
                   lastTick, lastCycle,
                   prober, arpCall>>

\* a listener that starts a cycle whether or not a scanner is stored and
\* devices exist
Tick_unguarded(inflight) ==
    /\ nextTick # None
    /\ now = nextTick
    /\ nextTick' = nextTick + TRACKER_INTERVAL
    /\ Len(cycles) < inflight
    /\ cycles' = Append(cycles,
           [pc |-> "ping", ping |-> {}, pingRaised |-> FALSE,
            scanner |-> scanner,
            ips |-> {devices[id].ip_address : id \in DOMAIN devices}])
    /\ lastTick' = "cycle"
    /\ UNCHANGED <<now, scanner, devices, coordinators, entryPc, pending, creating,
                   probes, log, src, polled, wasOnline, isOnlineNow, seenAt, lastCycle,
                   lastArp,
                   prober, arpCall>>

\* a listener whose cycle starts the neighbour-table read together with the probes
Tick_gather(inflight) ==
    /\ nextTick # None
    /\ now = nextTick
    /\ nextTick' = nextTick + TRACKER_INTERVAL
    /\ IF scanner # "None" /\ DOMAIN devices # {}
       THEN /\ Len(cycles) < inflight
            /\ cycles' = Append(cycles,
                   [pc |-> "both", ping |-> {}, pingRaised |-> FALSE,
                    scanner |-> scanner,
                    ips |-> {devices[id].ip_address : id \in DOMAIN devices}])
            /\ lastTick' = "cycle"
       ELSE /\ cycles' = cycles
            /\ lastTick' = "noop"
    /\ UNCHANGED <<now, scanner, devices, coordinators, entryPc, pending, creating,
                   probes, log, src, polled, wasOnline, isOnlineNow, seenAt, lastCycle,
                   lastArp,
                   prober, arpCall>>

\* a listener that is not called again once a cycle has failed
Tick_until_failure(inflight) ==
    /\ nextTick # None
    /\ now = nextTick
    /\ lastCycle # "failed"
    /\ nextTick' = nextTick + TRACKER_INTERVAL
    /\ IF scanner # "None" /\ DOMAIN devices # {}
       THEN /\ Len(cycles) < inflight
            /\ cycles' = Append(cycles,
                   [pc |-> "ping", ping |-> {}, pingRaised |-> FALSE,
                    scanner |-> scanner,
                    ips |-> {devices[id].ip_address : id \in DOMAIN devices}])
            /\ lastTick' = "cycle"
       ELSE /\ cycles' = cycles
            /\ lastTick' = "noop"
    /\ UNCHANGED <<now, scanner, devices, coordinators, entryPc, pending, creating,
                   probes, log, src, polled, wasOnline, isOnlineNow, seenAt, lastCycle,
                   lastArp,
                   prober, arpCall>>

\* __init__.py _update_devices up to its await: the listener fires, is
\* re-armed, and a cycle starts when a scanner is stored and devices exist.
\* async_track_time_interval starts the coroutine as a new task at every
\* firing and _update_devices keeps no lock or in-progress flag, so an earlier
\* execution may still be suspended; at most inflight are followed
Tick(inflight) ==
    /\ nextTick # None
    /\ now = nextTick
    /\ nextTick' = nextTick + TRACKER_INTERVAL
    /\ IF scanner # "None" /\ DOMAIN devices # {}
       THEN /\ Len(cycles) < inflight
            /\ cycles' = Append(cycles,
                   [pc |-> "ping", ping |-> {}, pingRaised |-> FALSE,
                    scanner |-> scanner,
                    ips |-> {devices[id].ip_address : id \in DOMAIN devices}])
            /\ lastTick' = "cycle"
       ELSE /\ cycles' = cycles
            /\ lastTick' = "noop"
    /\ UNCHANGED <<now, scanner, devices, coordinators, entryPc, pending, creating,
                   probes, log, src, polled, wasOnline, isOnlineNow, seenAt, lastCycle,
                   lastArp,
                   prober, arpCall>>

\* scanner.py line 171: the pinger call of cycle i returns or raises
PingerDone(i, raised, res) ==
    /\ i \in 1..Len(cycles)
    /\ cycles[i].pc = "ping"
    /\ LET c == after_pinger(cycles[i], raised,
                           ToSet(pinger(ListOf(cycles[i].ips), res))) IN
        IF c.pc = "raised"
        THEN /\ cycles' = RemoveAt(cycles, i)
             /\ lastCycle' = "failed"
        ELSE /\ cycles' = [cycles EXCEPT ![i] = [c EXCEPT !.pingRaised = raised]]
             /\ lastCycle' = lastCycle
    /\ UNCHANGED <<now, nextTick, scanner, devices, coordinators, entryPc, pending,
                   creating, probes, log, src, polled, wasOnline, isOnlineNow, seenAt,
                   lastTick, lastArp,
                   prober, arpCall>>

\* an update loop that gives up the event loop after each device
ArpDone_interleaved(i, raised, records) ==
    /\ i \in 1..Len(cycles)
    /\ cycles[i].pc = "arp"
    /\ \E id \in DOMAIN devices :
         devices' = [devices EXCEPT ![id] =
                        update_device(devices[id],
                                      reachable_ip(cycles[i].ips, cycles[i].ping,
                                                   arp_records_of(raised, records)),
                                      now)]
    /\ UNCHANGED <<now, nextTick, scanner, coordinators, cycles, entryPc, pending, creating,
                   probes, hist, lastCycle, prober, arpCall>>

\* scanner.py lines 173-206 and __init__.py lines 87-95: the neighbour-table
\* read of cycle i returns (or raises), the results are merged, every device of
\* the registry is updated and every coordinator of a device is given its value
ArpDone(i, raised, records) ==
    /\ i \in 1..Len(cycles)
    /\ cycles[i].pc = "arp"
    /\ LET c == cycles[i]
           recs == arp_records_of(raised, records)
           reach == reachable_ip(c.ips, c.ping, recs)
           tracked == DOMAIN devices
       IN
        /\ devices' = [id \in tracked |-> update_device(devices[id], reach, now)]
        /\ log' = [id \in Ids |->
                     IF id \in tracked THEN logged(devices[id], reach, now) ELSE log[id]]
        /\ src' = [id \in Ids |->
                     IF id \in tracked
                     THEN source_of(devices[id].ip_address, c.ping, recs)
                     ELSE src[id]]
        /\ polled' = {id \in tracked : devices[id].ip_address \in c.ips}
        /\ wasOnline' = [id \in Ids |->
                     IF id \in tracked THEN is_reachable(devices[id], now) ELSE wasOnline[id]]
        /\ isOnlineNow' = [id \in Ids |->
                     IF id \in tracked THEN is_reachable(devices'[id], now)
                     ELSE isOnlineNow[id]]
        /\ seenAt' = [id \in Ids |->
                     IF id \in tracked /\ devices[id].ip_address \in reach
                     THEN now ELSE seenAt[id]]
        /\ coordinators' = [id \in DOMAIN coordinators |->
                     IF id \in to_notify(DOMAIN coordinators, devices, devices', now)
                     THEN is_reachable(devices'[id], now)
                     ELSE coordinators[id]]
    /\ cycles' = RemoveAt(cycles, i)
    /\ lastCycle' = "updated"
    /\ lastArp' = arp_outcome(raised, records)
    /\ UNCHANGED <<now, nextTick, scanner, entryPc, pending, creating, probes, lastTick,
                   prober, arpCall>>

\* ------------------------------------------------------ config-entry setup
\* a loop that passes over nothing and creates every configured computer anew
SkipNothing(todo, known) == todo

RECURSIVE SkipKnown(_, _)
\* __init__.py line 377: computers whose entity id is already in devices are passed over
SkipKnown(todo, known) ==
    IF todo = << >> THEN << >>
    ELSE IF Head(todo) \in known THEN SkipKnown(Tail(todo), known)
    ELSE todo

\* an entry setup that logs the ScannerException, as async_setup does, and goes on
async_setup_entry_lenient(cfg, ma, mb, mc) ==
    /\ nextTick # None
    /\ entryPc \in {"idle", "not_ready", "loaded"}
    /\ IF scanner = "None"
       THEN LET r == async_get_scanner(ma, mb, mc) IN
            /\ scanner' = r.scanner
            /\ probes' = r.probes
       ELSE UNCHANGED <<scanner, probes>>
    /\ entryPc' = "parsing"
    /\ pending' = cfg
    /\ UNCHANGED <<now, nextTick, devices, coordinators, cycles, creating, hist, lastCycle,
                   prober, arpCall>>

\* an entry setup that looks for a scanner every time it runs
async_setup_entry_reprobe(cfg, ma, mb, mc) ==
    /\ nextTick # None
    /\ entryPc \in {"idle", "not_ready", "loaded"}
    /\ LET r == async_get_scanner(ma, mb, mc) IN
        /\ scanner' = IF r.scanner = "None" THEN scanner ELSE r.scanner
        /\ probes' = r.probes
        /\ IF r.scanner = "None"
           THEN entryPc' = "not_ready" /\ pending' = pending
           ELSE entryPc' = "parsing" /\ pending' = cfg
    /\ UNCHANGED <<now, nextTick, devices, coordinators, cycles, creating, hist, lastCycle,
                   prober, arpCall>>

\* __init__.py async_setup_entry, lines 352-366 (also the second half of
\* async_reload_entry): without a stored scanner one is looked for, and a
\* ScannerException becomes PlatformNotReady; then the CSV is parsed
async_setup_entry(cfg, ma, mb, mc) ==
    /\ nextTick # None
    /\ entryPc \in {"idle", "not_ready", "loaded"}
    /\ IF scanner = "None"
       THEN LET r == async_get_scanner(ma, mb, mc) IN
            /\ scanner' = r.scanner
            /\ probes' = r.probes
            /\ IF r.scanner = "None"
               THEN entryPc' = "not_ready" /\ pending' = pending
               ELSE entryPc' = "parsing" /\ pending' = cfg
       ELSE /\ entryPc' = "parsing"
            /\ pending' = cfg
            /\ UNCHANGED <<scanner, probes>>
    /\ UNCHANGED <<now, nextTick, devices, coordinators, cycles, creating, hist, lastCycle,
                   prober, arpCall>>

\* __init__.py async_setup_entry, lines 368-391: resumed after the parse or
\* after a first refresh, the loop registers the coordinator just refreshed,
\* passes over known entity ids, creates the next new device and awaits the
\* first refresh of its coordinator; with nothing left the entry is loaded
setup_entry_resume ==
    /\ entryPc \in {"parsing", "refresh"}
    /\ coordinators' =
         IF entryPc = "refresh"
         THEN [id \in DOMAIN coordinators \cup {creating} |->
                 IF id = creating THEN is_reachable(devices[creating], now)
                 ELSE coordinators[id]]
         ELSE coordinators
    /\ LET todo == SkipKnown(pending, DOMAIN devices) IN
        IF todo = << >>
        THEN /\ entryPc' = "loaded"
             /\ creating' = "None"
             /\ pending' = << >>
             /\ devices' = devices
        ELSE /\ entryPc' = "refresh"
             /\ creating' = Head(todo)
             /\ pending' = Tail(todo)
             /\ devices' = [id \in DOMAIN devices \cup {Head(todo)} |->
                              IF id = Head(todo) THEN DeviceData(IpOf(id))
                              ELSE devices[id]]
    /\ UNCHANGED <<now, nextTick, scanner, cycles, probes, hist, lastCycle,
                   prober, arpCall>>

\* a refresh that writes the state it computed back into the device
async_update_data_probing(id) ==
    /\ id \in DOMAIN coordinators
    /\ coordinators' = [coordinators EXCEPT ![id] = is_reachable(devices[id], now)]
    /\ devices' = [devices EXCEPT ![id].reachable = is_reachable(devices[id], now)]
    /\ UNCHANGED <<now, nextTick, scanner, cycles, entryPc, pending, creating, probes,
                   hist, lastCycle,
                   prober, arpCall>>

\* coordinator.py _async_update_data, lines 43-45, run by a refresh of the
\* coordinator of id: the value of is_reachable becomes the coordinator's data
async_update_data(id) ==
    /\ id \in DOMAIN coordinators
    /\ coordinators' = [coordinators EXCEPT ![id] = is_reachable(devices[id], now)]
    /\ UNCHANGED <<now, nextTick, scanner, devices, cycles, entryPc, pending, creating,
                   probes, hist, lastCycle,
                   prober, arpCall>>

\* every step of the system, for the configurations cfgs a config entry can
\* hold, a clock observed up to horizon and up to inflight overlapping cycles
Step(cfgs, horizon, inflight, neighbours) ==
    \/ \E ma \in Mechanism, mb \in Mechanism, mc \in Mechanism : async_setup(ma, mb, mc)
    \/ AdvanceTime(horizon)
    \/ Tick(inflight)
    \/ \E i \in 1..Len(cycles) : \E res \in [cycles[i].ips -> ProbeResult] :
          PingerDone(i, FALSE, res)
    \/ \E i \in 1..Len(cycles) : PingerDone(i, TRUE, [ip \in cycles[i].ips |-> "timeout"])
    \/ \E i \in 1..Len(cycles), records \in SUBSET neighbours : ArpDone(i, FALSE, records)
    \/ \E i \in 1..Len(cycles) : ArpDone(i, TRUE, {})
    \/ \E id \in Ids : async_update_data(id)
    \/ \E cfg \in cfgs, ma \in Mechanism, mb \in Mechanism, mc \in Mechanism :
          scanner = "None" /\ async_setup_entry(cfg, ma, mb, mc)
    \/ \E cfg \in cfgs :
          scanner # "None" /\ async_setup_entry(cfg, "norows", "norows", "norows")
    \/ setup_entry_resume

\* two computers, observed over the first polls
Next == Step(Configs, MaxTime, MaxInFlight, AllIps)

Spec == Init /\ [][Next]_vars

\* one computer, observed until its grace window has run out
NextLong == Step(SoloConfigs, LongTime, MaxInFlight, SoloIps)

SpecLong == Init /\ [][NextLong]_vars

\* one computer whose cycles keep running: each cycle ends before the
\* listener fires again
NextLive == Step(SoloConfigs, LongTime, 1, SoloIps)

\* the scheduling the platform gives: the clock goes on, the listener fires
\* when its instant has come, and a suspended cycle is resumed when its pinger
\* call or its neighbour-table read has ended
SpecLive ==
    /\ Init
    /\ [][NextLive]_vars
    /\ WF_vars(AdvanceTime(LongTime))
    /\ WF_vars(Tick(1))
    /\ WF_vars(\E i \in 1..Len(cycles) : \E res \in [cycles[i].ips -> ProbeResult] :
                  PingerDone(i, FALSE, res))
    /\ WF_vars(\E i \in 1..Len(cycles), records \in SUBSET SoloIps :
                  ArpDone(i, FALSE, records) \/ ArpDone(i, TRUE, {}))

\* ------------------------------------------- one pinger call, probe by probe
\* the longest ip_addresses list followed
MaxAddresses == 3

\* the lists pinger is called with: addresses of the registry, each once
AddressLists ==
    {l \in UNION {[1..n -> AllIps] : n \in 0..MaxAddresses} :
        \A j \in DOMAIN l, k \in DOMAIN l : l[j] = l[k] => j = k}

\* scanner.py line 75: gather starts a ping_one for every address of the list
InitPinger ==
    /\ InitCore
    /\ pingIn \in AddressLists
    /\ pingRes \in [AllIps -> ProbeResult]
    /\ pingPc = [k \in DOMAIN pingIn |-> "spawn"]
    /\ pingCall = "running"
    /\ pingOut = << >>
    /\ arpCall = NoCall

\* scanner.py lines 56-60 and 70-72: ping_one of position k starts the ping
\* process; when that raises the exception is caught and the result is False
ping_spawn(k) ==
    /\ pingCall = "running"
    /\ k \in DOMAIN pingIn
    /\ pingPc[k] = "spawn"
    /\ pingPc' = [pingPc EXCEPT ![k] =
                    IF pingRes[pingIn[k]] = "error" THEN "False" ELSE "wait"]
    /\ UNCHANGED <<core, arpCall, pingIn, pingRes, pingCall, pingOut>>

\* a wait on the process with no timeout ends only when the process exits
wait_ends_on_exit(r) == r \in {"exit0", "exit1"}

\* scanner.py line 61: wait_for(proc.wait(), timeout=1.5) ends for every
\* process, by its exit or by the timeout of the wait
wait_ends(r) == r \in {"exit0", "exit1", "timeout"}

\* scanner.py lines 61-72: the wait of position k ends and ping_one returns
ping_wait_done(k) ==
    /\ pingCall = "running"
    /\ k \in DOMAIN pingIn
    /\ pingPc[k] = "wait"
    /\ wait_ends(pingRes[pingIn[k]])
    /\ pingPc' = [pingPc EXCEPT ![k] =
                    IF ping_one(pingRes[pingIn[k]]) THEN "True" ELSE "False"]
    /\ UNCHANGED <<core, arpCall, pingIn, pingRes, pingCall, pingOut>>

\* scanner.py lines 75-82: every ping_one has returned, gather gives their
\* results in input order and pinger returns the addresses with result True
gather_return ==
    /\ pingCall = "running"
    /\ \A k \in DOMAIN pingIn : pingPc[k] \in {"True", "False"}
    /\ pingOut' = collect(pingIn, [k \in DOMAIN pingIn |-> pingPc[k] = "True"])
    /\ pingCall' = "returned"
    /\ UNCHANGED <<core, arpCall, pingIn, pingRes, pingPc>>

NextPinger ==
    \/ \E k \in DOMAIN pingIn : ping_spawn(k)
    \/ \E k \in DOMAIN pingIn : ping_wait_done(k)
    \/ gather_return

\* the event loop runs every task that can go on
SpecPinger ==
    /\ InitPinger
    /\ [][NextPinger]_vars
    /\ WF_vars(\E k \in DOMAIN pingIn : ping_spawn(k))
    /\ WF_vars(\E k \in DOMAIN pingIn : ping_wait_done(k))
    /\ WF_vars(gather_return)

\* ------------------------------------------------ the neighbour-table command
\* scanner.py lines 21-22: the two commands read through a subprocess
CMD_IP_NEIGH == "ip -4 neigh show nud reachable"
CMD_ARP == "arp -ne"

\* what the command does once asked to start: it cannot be started, it runs
\* past the two seconds of asyncio.timeout, or it exits with status zero or
\* non-zero after writing its rows
CommandEnd == {"exit0", "exit1", "timeout", "error"}

\* a row of the command's output: the address it starts with and whether it
\* carries a hardware address (five colons) or is a heading or incomplete entry
Rows == AllIps \X {"lladdr", "incomplete"}

\* scanner.py lines 85-101: the lines of the command's standard output, or
\* nothing when starting it or waiting for it raised; proc.returncode is not read
get_arp_subprocess(ends, stdout) ==
    IF ends \in {"error", "timeout"} THEN {} ELSE stdout

\* scanner.py lines 140-147 and 153-160: the first field of every row that
\* holds five colons
get_arp_records(result) == {row[1] : row \in {r \in result : r[2] = "lladdr"}}

\* scanner.py lines 143 and 156: a scanner starts its command
InitArp ==
    /\ InitCore
    /\ pingIn = << >>
    /\ pingRes = [ip \in AllIps |-> "exit1"]
    /\ pingPc = << >>
    /\ pingCall = "idle"
    /\ pingOut = << >>
    /\ arpCall \in [cmd : {CMD_IP_NEIGH, CMD_ARP}, ends : CommandEnd,
                    stdout : SUBSET Rows, pc : {"spawn"}, response : {{}}]

\* scanner.py lines 89-93: create_subprocess_exec; when it raises, the handler
\* of line 98 leaves the response empty
arp_spawn ==
    /\ arpCall.pc = "spawn"
    /\ arpCall' = [arpCall EXCEPT !.pc = IF arpCall.ends = "error" THEN "returned"
                                         ELSE "communicate"]
    /\ UNCHANGED <<core, prober>>

\* scanner.py lines 94-101 and the comprehension of the scanner: communicate
\* ends with the command's exit or with the timeout, and the rows are filtered
arp_communicate_done ==
    /\ arpCall.pc = "communicate"
    /\ arpCall' = [arpCall EXCEPT
                     !.pc = "returned",
                     !.response = get_arp_records(
                                     get_arp_subprocess(arpCall.ends, arpCall.stdout))]
    /\ UNCHANGED <<core, prober>>

NextArp ==
    \/ arp_spawn
    \/ arp_communicate_done

SpecArp == InitArp /\ [][NextArp]_vars

\* ------------------------------------------------------------------ claims
Grace(id) == devices[id].consider_home

\* no execution of a cycle that is still suspended holds a ping result naming id
NoSignalPending(id) ==
    \A i \in 1..Len(cycles) : devices[id].ip_address \notin cycles[i].ping

\* C1: at every instant the value a tracker reports for a device is
\* rawReachable OR (lastSeenAt is set AND now - lastSeenAt < graceWindow),
\* computed from the device's fields and not from a separately kept value
C1_OnlineIsDerived ==
    \A id \in DOMAIN coordinators :
        is_connected(id) =
            (devices[id].reachable
             \/ (devices[id].last_seen # None /\ now - devices[id].last_seen < Grace(id)))

\* C1 witness: the value last given to the coordinator says online while the
\* grace window of the device has run out and the tracker reports offline
C1_Witness ==
    \E id \in DOMAIN coordinators :
        /\ coordinators[id] = TRUE
        /\ devices[id].last_seen # None
        /\ now - devices[id].last_seen >= Grace(id)
        /\ ~is_connected(id)

C4_ProberFailureKeepsRegistry ==
    [][\A i \in 1..Len(cycles) :
          PingerDone(i, TRUE, [ip \in cycles[i].ips |-> "timeout"])
              => /\ devices' = devices
                 /\ coordinators' = coordinators
                 /\ log' = log
                 /\ Len(cycles') = Len(cycles) - 1
                 /\ \A j \in 1..Len(cycles') : ~cycles'[j].pingRaised]_vars

\* C4 witness: a cycle has failed while a device was marked reachable
C4_Witness ==
    /\ lastCycle = "failed"
    /\ \E id \in DOMAIN devices : devices[id].reachable /\ devices[id].last_seen # None

\* C5 as stated: at no time are two executions of the cycle in flight
C5_NoOverlap == Len(cycles) <= 1

\* C6 as stated: an offline transition is reported only in the cycle in which
\* isOnline turns from true to false, that is with at least graceWindow
\* elapsed since lastSeenAt
C6_OfflineOnceAtExpiry ==
    \A id \in Ids :
        log[id].kind = "offline" =>
            /\ wasOnline[id] /\ ~isOnlineNow[id]
            /\ log[id].ago >= DEFAULT_CONSIDER_HOME

\* C7 as stated: a cycle reports a transition for a device iff isOnline just
\* before its update differs from isOnline just after it
C7_EventIffOnlineChanged ==
    \A id \in Ids : (log[id].kind # "none") <=> (wasOnline[id] # isOnlineNow[id])

\* C8: the variants are probed in the order kernel table, `ip neigh`, `arp`;
\* the adopted scanner is the first whose probe returned records, and a
\* variant is probed only after every variant before it returned none
C8_FirstWorkingVariant ==
    /\ \A k \in 1..3 :
          /\ probes[Variants[k]] = "records" => scanner = Variants[k]
          /\ probes[Variants[k]] # "not_invoked" =>
                \A j \in 1..(k - 1) : probes[Variants[j]] = "empty"
    /\ scanner # "None" => probes[scanner] = "records"

\* C8 witness: the legacy arp command was adopted after the two others failed
C8_Witness ==
    /\ scanner = "ScannerArp"
    /\ probes["ScannerIPRoute"] = "empty" /\ probes["ScannerIPNeigh"] = "empty"

\* C9: when no variant passes its probe, entry setup ends not ready with no
\* device and no coordinator created, and entry setup never goes past the
\* scanner check without a stored scanner
C9_NotReadyWithoutScanner ==
    /\ entryPc = "not_ready" =>
          /\ scanner = "None"
          /\ \A k \in 1..3 : probes[Variants[k]] = "empty"
          /\ DOMAIN devices = {} /\ DOMAIN coordinators = {}
    /\ (entryPc \in {"parsing", "refresh", "loaded"} \/ DOMAIN devices # {})
          => scanner # "None"

\* C9 witness: component setup found no scanner and entry setup ended not ready
C9_Witness == entryPc = "not_ready" /\ nextTick # None

\* C10 as stated: with every variant failed at startup and a configured entry
\* waiting, a firing of the poll listener still runs a (ping-only) cycle
C10_PingOnlyWhenNoScanner ==
    [][(entryPc = "not_ready" /\ nextTick # None /\ nextTick' # nextTick)
          => lastTick' = "cycle"]_vars

\* C11: a neighbour-table read that raises or returns nothing (an error or a
\* timeout of the command gives an empty list) ends with the cycle completed,
\* and every device is then reachable exactly when the ping result holds it
C11_ArpFailureAbsorbed ==
    [][\A i \in 1..Len(cycles) :
          (ArpDone(i, TRUE, {}) \/ ArpDone(i, FALSE, {}))
              => /\ lastCycle' = "updated"
                 /\ Len(cycles') = Len(cycles) - 1
                 /\ \A id \in DOMAIN devices' :
                       devices'[id].reachable
                           <=> devices'[id].ip_address \in cycles[i].ping]_vars

\* C11 witness: the read of the last cycle raised or gave nothing and a device
\* found by ping is reachable
C11_Witness ==
    /\ lastCycle = "updated"
    /\ lastArp \in {"raised", "empty"}
    /\ \E id \in polled : src[id] = "ping" /\ devices[id].reachable

\* the computers of a configuration
ConfiguredIds(cfg) == {cfg[k] : k \in 1..Len(cfg)}

\* C12: a reload of a loaded entry with configuration cfg leaves no device in
\* the Device Registry that cfg does not hold (the devices of cfg that are
\* missing are created by the steps that follow)
C12_ReloadReplaces ==
    [][\A cfg \in Configs :
          (entryPc = "loaded" /\ async_setup_entry(cfg, "norows", "norows", "norows"))
              => DOMAIN devices' \subseteq ConfiguredIds(cfg)]_vars

\* a cycle finishes in this step: it is no longer in flight
CycleEnds == Len(cycles') < Len(cycles)

\* every coordinator holds the value is_reachable has for its device
CoordinatorsCurrent ==
    \A id \in DOMAIN coordinators : coordinators[id] = is_reachable(devices[id], now)

C15_RefreshWritesNoDevice ==
    [][((\E id \in Ids : async_update_data(id)) \/ setup_entry_resume)
          => \A id \in DOMAIN devices : devices'[id] = devices[id]]_vars

\* C15 witness: the grace window of a device ran out at this instant, no cycle
\* has completed since, and a refresh has given the coordinator the new value
\* while the device still holds what the last cycle wrote
C15_Witness ==
    \E id \in DOMAIN coordinators :
        /\ devices[id].last_seen # None
        /\ now - devices[id].last_seen = DEFAULT_CONSIDER_HOME
        /\ lastArp = "none"
        /\ ~coordinators[id]
        /\ ~devices[id].reachable
        /\ devices[id].last_seen = seenAt[id]

\* C16: a device that no cycle has detected since it was created has the raw
\* flag false, no last-seen instant, and is reported offline
C16_NewDeviceOffline ==
    \A id \in DOMAIN devices :
        seenAt[id] = None
            => /\ ~devices[id].reachable
               /\ devices[id].last_seen = None
               /\ ~is_reachable(devices[id], now)
               /\ (id \in DOMAIN coordinators => ~is_connected(id))

\* C16 witness: a device was created, a cycle has polled it without finding
\* it, and it is offline
C16_Witness ==
    \E id \in polled :
        /\ lastCycle = "updated"
        /\ seenAt[id] = None
        /\ ~is_reachable(devices[id], now)

\* C17: once a scanner is stored it is never replaced and no capability probe
\* runs again; every cycle in flight reads the neighbour table through the
\* stored scanner; and with ScannerIPNeigh adopted ScannerArp was never invoked
C17_ScannerFixed ==
    /\ [][scanner # "None" => (scanner' = scanner /\ probes' = probes)]_vars
    /\ [](\A i \in 1..Len(cycles) : cycles[i].scanner = scanner)
    /\ [](scanner = "ScannerIPNeigh" => probes["ScannerArp"] = "not_invoked")

\* C17 witness: ScannerIPRoute failed its probe and ScannerIPNeigh was adopted
\* at startup, the entry was set up with the scanner already stored, and a
\* cycle has run to completion
C17_Witness ==
    /\ scanner = "ScannerIPNeigh"
    /\ probes["ScannerIPRoute"] # "not_invoked"
    /\ entryPc = "loaded"
    /\ lastCycle = "updated"
    /\ polled # {}

\* C18 as stated: a variant whose probe returned an empty list is the one
\* adopted
C18_Orig ==
    \A k \in 1..3 : probes[Variants[k]] = "empty" => scanner = Variants[k]

\* C18: a variant whose probe returned an empty list is not adopted, and the
\* variant next in priority, if there is one, is tried
C18_EmptyProbeRejected ==
    \A k \in 1..3 :
        probes[Variants[k]] = "empty"
            => /\ scanner # Variants[k]
               /\ k < 3 => probes[Variants[k + 1]] # "not_invoked"

\* C18 witness: the probe of ScannerIPRoute returned an empty list, the probe
\* of ScannerIPNeigh returned rows and was adopted
C18_Witness ==
    /\ probes["ScannerIPRoute"] = "empty"
    /\ probes["ScannerIPNeigh"] = "records"
    /\ scanner = "ScannerIPNeigh"

\* the positions of list at which ip stands
PositionsOf(list, ip) == {k \in DOMAIN list : list[k] = ip}

\* C19: the list pinger returns holds exactly the input addresses whose ping
\* process exited with status 0, each once and in input order, whatever the
\* probes of the other addresses did (timeout, failure to start, other status)
C19_ProberResult ==
    pingCall = "returned"
        => /\ \A ip \in AllIps :
                 PositionsOf(pingOut, ip) # {}
                     <=> (PositionsOf(pingIn, ip) # {} /\ pingRes[ip] = "exit0")
           /\ \A j \in DOMAIN pingOut, k \in DOMAIN pingOut :
                 j < k => \E a \in DOMAIN pingIn, b \in DOMAIN pingIn :
                             a < b /\ pingIn[a] = pingOut[j] /\ pingIn[b] = pingOut[k]
           /\ pingOut = pinger(pingIn, pingRes)

\* C19 witness: the call returned two addresses in input order although the
\* probe between them timed out or could not be started
C19_Witness ==
    /\ pingCall = "returned"
    /\ Len(pingIn) = 3
    /\ pingRes[pingIn[2]] \in {"timeout", "error"}
    /\ pingOut = <<pingIn[1], pingIn[3]>>

\* C20: a pinger call returns, whatever its probes do
C20_ProberTerminates == <>(pingCall = "returned")

\* C20 witness: the call has returned the empty list after every probe of a
\* list of three addresses ran into the timeout of its wait
C20_Witness ==
    /\ pingCall = "returned"
    /\ Len(pingIn) = 3
    /\ \A k \in DOMAIN pingIn : pingRes[pingIn[k]] = "timeout"
    /\ pingOut = << >>

\* the grace window of the last detection of id ends within the observed time
EarlyDetection(id) ==
    seenAt[id] # None /\ seenAt[id] + DEFAULT_CONSIDER_HOME <= LongTime

\* C14: while no cycle fails, a device whose last detection lies a grace
\* window or more before the end of the observed time is in the end reported
\* offline for good; and a device reported offline is reported online again
\* only by a step that detects it
C14_OfflineWithoutSignal ==
    /\ [](lastCycle # "failed")
          => <>[](EarlyDetection("pc1") => ~is_connected("pc1"))
    /\ [][\A id \in DOMAIN devices :
             (~is_connected(id) /\ is_reachable(devices'[id], now'))
                 => (seenAt'[id] = now' /\ seenAt'[id] # seenAt[id])]_vars

\* C14 witness: a device detected once is reported offline, its grace window
\* over and the last completed cycle not having found it
C14_Witness ==
    /\ "pc1" \in polled
    /\ seenAt["pc1"] # None
    /\ now - seenAt["pc1"] >= DEFAULT_CONSIDER_HOME
    /\ src["pc1"] = "none"
    /\ ~is_connected("pc1")

\* C21: a neighbour-table command that ran past its timeout or exited with a
\* non-zero status gives no addresses to the read that started it
C21_FailedCommandGivesNothing ==
    (arpCall.pc = "returned" /\ arpCall.ends \in {"timeout", "exit1"})
        => arpCall.response = {}

\* the step is the update loop of cycle i, run over the whole registry with the
\* neighbour-table addresses recs
FusionUpdate(i, recs) ==
    /\ cycles[i].pc = "arp"
    /\ cycles' = RemoveAt(cycles, i)
    /\ devices' = [id \in DOMAIN devices |->
                     update_device(devices[id],
                                   reachable_ip(cycles[i].ips, cycles[i].ping, recs), now)]

CycleFails == CycleEnds /\ lastCycle' = "failed"

\* C23: the step in which a cycle fails leaves the listener armed and the
\* registry, the scanner and the coordinators as they were, and while the
\* observed time lasts the listener fires again after it and starts a cycle
\* over the addresses of the whole registry
C23_PollingSurvivesFailure ==
    /\ [][CycleFails =>
            /\ nextTick' = nextTick
            /\ nextTick' # None
            /\ nextTick' >= now'
            /\ devices' = devices
            /\ coordinators' = coordinators
            /\ scanner' = scanner]_vars
    /\ (lastCycle = "failed" /\ cycles = << >> /\ nextTick <= LongTime)
          ~> (/\ Len(cycles) = 1
              /\ cycles[1].pc = "ping"
              /\ cycles[1].ips = {devices[id].ip_address : id \in DOMAIN devices})

\* after a failed cycle the next one has got its probe results and reads the
\* neighbour table
C23_Witness ==
    /\ lastCycle = "failed"
    /\ Len(cycles) = 1
    /\ cycles[1].pc = "arp"
    /\ cycles[1].ping # {}

\* where a cycle stands: awaiting pinger (scanner.py line 171), awaiting
\* get_arp_records (line 176), or awaiting both had they been started together
ProbesOutstanding(c) == c.pc \in {"ping", "both"}
ReadInProgress(c) == c.pc \in {"arp", "both"}

\* C24 as stated: the neighbour-table read of a cycle is started together with
\* its probes, so it is in progress while they are outstanding
C24_Orig ==
    \A i \in 1..Len(cycles) : ProbesOutstanding(cycles[i]) => ReadInProgress(cycles[i])

\* C24: within a cycle the neighbour-table read is never in progress while the
\* probes are outstanding; a cycle is always at one of the two awaits, and the
\* merge follows the second
C24_ReadAfterProbes ==
    \A i \in 1..Len(cycles) :
        /\ ProbesOutstanding(cycles[i]) \/ ReadInProgress(cycles[i])
        /\ ~(ProbesOutstanding(cycles[i]) /\ ReadInProgress(cycles[i]))

\* a cycle whose probes have all answered is reading the neighbour table,
\* while a later one still awaits its probes
C24_Witness ==
    /\ Len(cycles) = 2
    /\ cycles[1].pc = "arp"
    /\ cycles[1].ping = cycles[1].ips
    /\ cycles[2].pc = "ping"

\* C25: a device whose raw flag is set has a last-seen instant, and so has
\* every device that is reported online
C25_OnlineHasLastSeen ==
    \A id \in DOMAIN devices :
        /\ devices[id].reachable => devices[id].last_seen # None
        /\ is_reachable(devices[id], now) => devices[id].last_seen # None

\* a cycle has just found a device
C25_Witness ==
    \E id \in DOMAIN devices :
        /\ devices[id].reachable
        /\ devices[id].last_seen = now
        /\ log[id].kind = "online"

\* C26: a step changes the last-seen instant of a device only when it is the
\* update of a cycle whose merged set holds the device's address, and then to
\* the present; the instant never decreases and, once set, stays set
C26_LastSeenKept ==
    [][\A id \in DOMAIN devices :
         /\ id \in DOMAIN devices'
         /\ devices'[id].last_seen >= devices[id].last_seen
         /\ devices[id].last_seen # None => devices'[id].last_seen # None
         /\ devices'[id].last_seen # devices[id].last_seen
              => /\ devices'[id].reachable
                 /\ devices'[id].last_seen = now
                 /\ \E i \in 1..Len(cycles), recs \in SUBSET AllIps :
                       /\ FusionUpdate(i, recs)
                       /\ devices[id].ip_address
                            \in reachable_ip(cycles[i].ips, cycles[i].ping, recs)]_vars

\* a device seen by an earlier cycle has just been missed by a cycle and
\* keeps the instant of the earlier one
C26_Witness ==
    \E id \in DOMAIN devices :
        /\ lastCycle = "updated"
        /\ log[id].kind = "offline"
        /\ ~devices[id].reachable
        /\ devices[id].last_seen # None
        /\ devices[id].last_seen < now

\* C27: the step that ends a cycle by its update leaves the set of tracked
\* devices as it is and sets the raw flag of no device whose address the cycle
\* had not taken to probe; whatever the neighbour table holds, the merged set
\* lies within the addresses taken and is the same without the untracked entries
C27_UntrackedEntriesIgnored ==
    [][(CycleEnds /\ ~CycleFails) =>
         /\ DOMAIN devices' = DOMAIN devices
         /\ \E i \in 1..Len(cycles) :
              /\ cycles[i].pc = "arp"
              /\ cycles' = RemoveAt(cycles, i)
              /\ \A id \in DOMAIN devices :
                   devices'[id].reachable => devices[id].ip_address \in cycles[i].ips
              /\ \A recs \in SUBSET AllIps :
                   LET merged == reachable_ip(cycles[i].ips, cycles[i].ping, recs) IN
                    /\ merged \subseteq cycles[i].ips
                    /\ merged = reachable_ip(cycles[i].ips, cycles[i].ping,
                                             recs \cap cycles[i].ips)]_vars

\* both computers are tracked and were probed, the neighbour table read by the
\* cycle held an address, and it was the address of neither
C27_Witness ==
    /\ lastCycle = "updated"
    /\ lastArp = "records"
    /\ DOMAIN devices = Ids
    /\ polled = Ids
    /\ \A id \in Ids : src[id] \in {"none", "ping"}

\* C28: the update of a cycle leaves every device alone whose address the
\* cycle had not taken to probe
C28_UnprobedNotWritten ==
    [][(CycleEnds /\ ~CycleFails) =>
         \E i \in 1..Len(cycles) :
              /\ cycles[i].pc = "arp"
              /\ cycles' = RemoveAt(cycles, i)
              /\ \A id \in DOMAIN devices :
                   devices[id].ip_address \notin cycles[i].ips
                      => devices'[id] = devices[id]]_vars

\* the step is a firing of the listener
Fires == nextTick' # nextTick /\ nextTick # None

\* C29: a firing of the listener while no scanner is stored or no device is
\* tracked starts no cycle (so no probe and no neighbour-table read), writes no
\* device and gives no coordinator a value; it only re-arms the listener
C29_TickWithoutScannerIsNoop ==
    [][(Fires /\ (scanner = "None" \/ DOMAIN devices = {})) =>
         /\ cycles' = cycles
         /\ devices' = devices
         /\ coordinators' = coordinators
         /\ scanner' = scanner
         /\ lastTick' = "noop"
         /\ nextTick' = nextTick + TRACKER_INTERVAL]_vars

\* the listener has fired with a scanner stored and nothing tracked yet
C29_Witness ==
    /\ lastTick = "noop"
    /\ scanner # "None"
    /\ DOMAIN devices = {}
    /\ cycles = << >>
    /\ now >= PROBE_INTERVAL

\* the step belongs to the setup of a config entry
SetupStep == entryPc' # entryPc \/ pending' # pending \/ creating' # creating

\* C30: a step of config-entry setup, first or after a reload, leaves every
\* device of the registry and every registered coordinator as it is; what it
\* adds is a device that is offline and was never seen, for an entity id that
\* was not in the registry, and a coordinator for an id that had none
C30_SetupKeepsKnown ==
    [][SetupStep =>
         /\ \A id \in DOMAIN devices :
              id \in DOMAIN devices' /\ devices'[id] = devices[id]
         /\ \A id \in DOMAIN coordinators :
              id \in DOMAIN coordinators' /\ coordinators'[id] = coordinators[id]
         /\ \A id \in DOMAIN devices' \ DOMAIN devices :
              devices'[id] = DeviceData(IpOf(id))
         /\ DOMAIN coordinators' \subseteq DOMAIN devices']_vars

\* pc2 was set up earlier and is online with its coordinator; a reload naming
\* pc1 and pc2 has created pc1 offline and left pc2 as it was
C30_Witness ==
    /\ entryPc = "refresh"
    /\ creating = "pc1"
    /\ pending = <<"pc2">>
    /\ DOMAIN devices = Ids
    /\ devices["pc1"] = DeviceData(IpOf("pc1"))
    /\ devices["pc2"].reachable
    /\ "pc2" \in DOMAIN coordinators
    /\ coordinators["pc2"]

====
